---------------------------- MODULE Spec2Model ----------------------------
(***************************************************************************)
(* A model of bstmap: a map backed by an unbalanced binary search tree.    *)
(*                                                                         *)
(*   src/src/node.rs    Node and its recursive algorithms                  *)
(*   src/src/lib.rs     BstMap { len, head } and its public operations     *)
(*   src/src/action.rs  InsertAction, RemoveAction                         *)
(*                                                                         *)
(* A NodeLink (Option<Box<Node>>) is either None or a node record; the Box *)
(* is transparent.  A method taking &mut self is an operator that returns  *)
(* the node as the call leaves it (field "self") beside its result.  An    *)
(* unwrap of an absent value is a panic, carried in the field "panic".     *)
(***************************************************************************)
EXTENDS Integers, Sequences, FiniteSets, TLC

\* Keys are the integers 1..MaxKey under their usual order (T: Ord).
MaxKey == 5

Keys == 1..MaxKey

\* Values are opaque payloads (V: Debug): no code path compares them.
Values == {"a", "b"}

\* The closures handed to insert_or, and the writes a caller makes through
\* the reference get_mut returns ("keep": the caller only reads).
Funcs == {"flip", "setA"}

Writes == Funcs \cup {"keep"}

Apply(func, v) ==
    CASE func = "flip" -> (IF v = "a" THEN "b" ELSE "a")
      [] func = "setA" -> "a"
      [] OTHER -> v

VARIABLES
    head,   \* BstMap::head : Option<Node<T, V>>
    len,    \* BstMap::len  : usize
    ref,    \* the reference map: key -> Some(value) | None, driven by the same calls
    last    \* the last call: its name, arguments, result, and the map before it

vars == <<head, len, ref, last>>

-----------------------------------------------------------------------------
(* Option and Ordering *)

None == [none |-> TRUE]

Some(x) == [some |-> x]

IsSome(o) == o # None

Cmp(a, b) == IF a > b THEN "Greater" ELSE IF a < b THEN "Less" ELSE "Equal"

-----------------------------------------------------------------------------
(* node.rs *)

NodeNew(key, value) ==
    [key |-> key, value |-> value, left |-> None, right |-> None]

\* NodeInsert, except that a new key greater than self.key is put between
\* self and its right child instead of below it.
RECURSIVE NodeInsertSplices(_, _, _)
NodeInsertSplices(self, key, value) ==
    LET c == Cmp(key, self.key) IN
    IF c = "Equal"
    THEN [self |-> [self EXCEPT !.value = value], action |-> "None"]
    ELSE IF c = "Greater"
    THEN IF IsSome(self.right) /\ key < self.right.key /\ ~IsSome(self.right.left)
         THEN [self   |-> [self EXCEPT !.right =
                              [NodeNew(key, value) EXCEPT !.right = self.right]],
               action |-> "Increment"]
         ELSE IF IsSome(self.right)
         THEN LET r == NodeInsertSplices(self.right, key, value) IN
              [self |-> [self EXCEPT !.right = r.self], action |-> r.action]
         ELSE [self   |-> [self EXCEPT !.right = NodeNew(key, value)],
               action |-> "Increment"]
    ELSE IF IsSome(self.left)
         THEN LET r == NodeInsertSplices(self.left, key, value) IN
              [self |-> [self EXCEPT !.left = r.self], action |-> r.action]
         ELSE [self   |-> [self EXCEPT !.left = NodeNew(key, value)],
               action |-> "Increment"]

\* NodeInsert, except that an existing key keeps its old value.
RECURSIVE NodeInsertKeepsOld(_, _, _)
NodeInsertKeepsOld(self, key, value) ==
    LET c == Cmp(key, self.key) IN
    IF c = "Equal"
    THEN [self |-> self, action |-> "None"]
    ELSE LET node_link == IF c = "Greater" THEN self.right ELSE self.left IN
         IF IsSome(node_link)
         THEN LET r == NodeInsertKeepsOld(node_link, key, value) IN
              [self   |-> IF c = "Greater" THEN [self EXCEPT !.right = r.self]
                                           ELSE [self EXCEPT !.left = r.self],
               action |-> r.action]
         ELSE [self   |-> IF c = "Greater"
                          THEN [self EXCEPT !.right = NodeNew(key, value)]
                          ELSE [self EXCEPT !.left = NodeNew(key, value)],
               action |-> "Increment"]

RECURSIVE NodeInsert(_, _, _)
NodeInsert(self, key, value) ==
    LET c == Cmp(key, self.key) IN
    IF c = "Equal"
    THEN [self |-> [self EXCEPT !.value = value], action |-> "None"]
    ELSE LET node_link == IF c = "Greater" THEN self.right ELSE self.left IN
         IF IsSome(node_link)
         THEN LET r == NodeInsert(node_link, key, value) IN
              [self   |-> IF c = "Greater" THEN [self EXCEPT !.right = r.self]
                                           ELSE [self EXCEPT !.left = r.self],
               action |-> r.action]
         ELSE [self   |-> IF c = "Greater"
                          THEN [self EXCEPT !.right = NodeNew(key, value)]
                          ELSE [self EXCEPT !.left = NodeNew(key, value)],
               action |-> "Increment"]

\* NodeInsertOr, except that an existing key is clobbered as by insert.
RECURSIVE NodeInsertOrClobbers(_, _, _, _)
NodeInsertOrClobbers(self, key, value, func) ==
    LET c == Cmp(key, self.key) IN
    IF c = "Equal"
    THEN [self |-> [self EXCEPT !.value = value], action |-> "None"]
    ELSE LET node_link == IF c = "Greater" THEN self.right ELSE self.left IN
         IF IsSome(node_link)
         THEN LET r == NodeInsertOrClobbers(node_link, key, value, func) IN
              [self   |-> IF c = "Greater" THEN [self EXCEPT !.right = r.self]
                                           ELSE [self EXCEPT !.left = r.self],
               action |-> r.action]
         ELSE [self   |-> IF c = "Greater"
                          THEN [self EXCEPT !.right = NodeNew(key, value)]
                          ELSE [self EXCEPT !.left = NodeNew(key, value)],
               action |-> "Increment"]

RECURSIVE NodeInsertOr(_, _, _, _)
NodeInsertOr(self, key, value, func) ==
    LET c == Cmp(key, self.key) IN
    IF c = "Equal"
    THEN [self |-> [self EXCEPT !.value = Apply(func, self.value)], action |-> "None"]
    ELSE LET node_link == IF c = "Greater" THEN self.right ELSE self.left IN
         IF IsSome(node_link)
         THEN LET r == NodeInsertOr(node_link, key, value, func) IN
              [self   |-> IF c = "Greater" THEN [self EXCEPT !.right = r.self]
                                           ELSE [self EXCEPT !.left = r.self],
               action |-> r.action]
         ELSE [self   |-> IF c = "Greater"
                          THEN [self EXCEPT !.right = NodeNew(key, value)]
                          ELSE [self EXCEPT !.left = NodeNew(key, value)],
               action |-> "Increment"]

\* NodeGet, except that the Less arm selects the right child too.
RECURSIVE NodeGetRightOnly(_, _)
NodeGetRightOnly(self, key) ==
    LET c == Cmp(key, self.key) IN
    IF c = "Equal"
    THEN Some(self.value)
    ELSE LET node_link == IF c = "Greater" THEN self.right ELSE self.right IN
         IF IsSome(node_link) THEN NodeGetRightOnly(node_link, key) ELSE None

RECURSIVE NodeGet(_, _)
NodeGet(self, key) ==
    LET c == Cmp(key, self.key) IN
    IF c = "Equal"
    THEN Some(self.value)
    ELSE LET node_link == IF c = "Greater" THEN self.right ELSE self.left IN
         IF IsSome(node_link) THEN NodeGet(node_link, key) ELSE None

\* get_mut returns Option<&mut V>; w is what the caller writes through it.
\* Both the Greater and the Less arm select self.right (node.rs:151-152).
RECURSIVE NodeGetMut(_, _, _)
NodeGetMut(self, key, w) ==
    LET c == Cmp(key, self.key) IN
    IF c = "Equal"
    THEN [self |-> [self EXCEPT !.value = Apply(w, self.value)],
          ret  |-> Some(self.value)]
    ELSE LET node_link == IF c = "Greater" THEN self.right ELSE self.right IN
         IF IsSome(node_link)
         THEN LET r == NodeGetMut(node_link, key, w) IN
              [self |-> [self EXCEPT !.right = r.self], ret |-> r.ret]
         ELSE [self |-> self, ret |-> None]

\* NodeFirstKeyValue, except that it looks one level down and no further.
NodeFirstKeyValueOneLevel(self) ==
    IF IsSome(self.left)
    THEN Some(<<self.left.key, self.left.value>>)
    ELSE Some(<<self.key, self.value>>)

RECURSIVE NodeFirstKeyValue(_)
NodeFirstKeyValue(self) ==
    IF IsSome(self.left)
    THEN NodeFirstKeyValue(self.left)
    ELSE Some(<<self.key, self.value>>)

RECURSIVE NodeLastKeyValue(_)
NodeLastKeyValue(self) ==
    IF IsSome(self.right)
    THEN NodeLastKeyValue(self.right)
    ELSE Some(<<self.key, self.value>>)

HasChildren(self) == <<IsSome(self.left), IsSome(self.right)>>

IsSuccessor(self) == ~IsSome(self.left)

\* GetSuccessor, except that the successor keeps its right subtree instead of
\* leaving it in its former position.
RECURSIVE GetSuccessorKeepsRight(_)
GetSuccessorKeepsRight(self) ==
    IF ~IsSome(self.left)
    THEN [self |-> self, succ |-> None, panic |-> TRUE]
    ELSE LET left == self.left IN
         IF IsSuccessor(left)
         THEN [self  |-> [self EXCEPT !.left = None],
               succ  |-> left,
               panic |-> FALSE]
         ELSE LET r == GetSuccessorKeepsRight(left) IN
              [self  |-> [self EXCEPT !.left = r.self],
               succ  |-> r.succ,
               panic |-> r.panic]

\* Returns [self, succ, panic]: succ is the NodeLink the call returns.
RECURSIVE GetSuccessor(_)
GetSuccessor(self) ==
    IF ~IsSome(self.left)
    THEN [self |-> self, succ |-> None, panic |-> TRUE]      \* unwrap, node.rs:272
    ELSE LET left == self.left IN
         IF IsSuccessor(left)
         THEN LET successor == left IN
              IF IsSome(successor.right)
              THEN [self  |-> [self EXCEPT !.left = successor.right],
                    succ  |-> [successor EXCEPT !.right = None],
                    panic |-> FALSE]
              ELSE [self  |-> [self EXCEPT !.left = None],
                    succ  |-> successor,
                    panic |-> FALSE]
         ELSE LET r == GetSuccessor(left) IN
              [self  |-> [self EXCEPT !.left = r.self],
               succ  |-> r.succ,
               panic |-> r.panic]

\* ReplacementNode, except that the successor found below the right child is
\* handed the two subtrees the wrong way round.
ReplacementNodeSwapped(self) ==
    LET hc == HasChildren(self) IN
    CASE hc = <<FALSE, FALSE>> ->
            [self |-> self, link |-> None, panic |-> FALSE]
      [] hc = <<TRUE, FALSE>> ->
            [self |-> [self EXCEPT !.left = None], link |-> self.left, panic |-> FALSE]
      [] hc = <<FALSE, TRUE>> ->
            [self |-> [self EXCEPT !.right = None], link |-> self.right, panic |-> FALSE]
      [] hc = <<TRUE, TRUE>> ->
            LET left   == self.left
                right  == self.right
                taken  == [self EXCEPT !.left = None, !.right = None]
            IN  IF IsSuccessor(right)
                THEN [self  |-> taken,
                      link  |-> [right EXCEPT !.left = left],
                      panic |-> FALSE]
                ELSE LET g == GetSuccessor(right) IN
                     IF g.panic \/ ~IsSome(g.succ)
                     THEN [self |-> taken, link |-> None, panic |-> TRUE]
                     ELSE [self  |-> taken,
                           link  |-> [g.succ EXCEPT !.left = g.self, !.right = left],
                           panic |-> FALSE]

\* The tree t with the subtree left hung below its leftmost node.
RECURSIVE AttachLeftmost(_, _)
AttachLeftmost(t, left) ==
    IF IsSome(t.left)
    THEN [t EXCEPT !.left = AttachLeftmost(t.left, left)]
    ELSE [t EXCEPT !.left = left]

\* ReplacementNode, except that a node with two children is replaced by its
\* right child, the left subtree going below that child's leftmost node.
ReplacementNodePromotesRight(self) ==
    LET hc == HasChildren(self) IN
    CASE hc = <<FALSE, FALSE>> ->
            [self |-> self, link |-> None, panic |-> FALSE]
      [] hc = <<TRUE, FALSE>> ->
            [self |-> [self EXCEPT !.left = None], link |-> self.left, panic |-> FALSE]
      [] hc = <<FALSE, TRUE>> ->
            [self |-> [self EXCEPT !.right = None], link |-> self.right, panic |-> FALSE]
      [] hc = <<TRUE, TRUE>> ->
            [self  |-> [self EXCEPT !.left = None, !.right = None],
             link  |-> AttachLeftmost(self.right, self.left),
             panic |-> FALSE]

\* ReplacementNode, except that a node with only a left child takes its
\* (absent) right child as replacement.
ReplacementNodeWrongSide(self) ==
    LET hc == HasChildren(self) IN
    CASE hc = <<FALSE, FALSE>> ->
            [self |-> self, link |-> None, panic |-> FALSE]
      [] hc = <<TRUE, FALSE>> ->
            [self |-> self, link |-> self.right, panic |-> FALSE]
      [] hc = <<FALSE, TRUE>> ->
            [self |-> [self EXCEPT !.right = None], link |-> self.right, panic |-> FALSE]
      [] hc = <<TRUE, TRUE>> ->
            LET left   == self.left
                right  == self.right
                taken  == [self EXCEPT !.left = None, !.right = None]
            IN  IF IsSuccessor(right)
                THEN [self  |-> taken,
                      link  |-> [right EXCEPT !.left = left],
                      panic |-> FALSE]
                ELSE LET g == GetSuccessor(right) IN
                     IF g.panic \/ ~IsSome(g.succ)
                     THEN [self |-> taken, link |-> None, panic |-> TRUE]
                     ELSE [self  |-> taken,
                           link  |-> [g.succ EXCEPT !.left = left, !.right = g.self],
                           panic |-> FALSE]

\* ReplacementNode, except that the test of the right child is inverted: the
\* successor is looked for below a right child that has no left child.
ReplacementNodeInverted(self) ==
    LET hc == HasChildren(self) IN
    CASE hc = <<FALSE, FALSE>> ->
            [self |-> self, link |-> None, panic |-> FALSE]
      [] hc = <<TRUE, FALSE>> ->
            [self |-> [self EXCEPT !.left = None], link |-> self.left, panic |-> FALSE]
      [] hc = <<FALSE, TRUE>> ->
            [self |-> [self EXCEPT !.right = None], link |-> self.right, panic |-> FALSE]
      [] hc = <<TRUE, TRUE>> ->
            LET left   == self.left
                right  == self.right
                taken  == [self EXCEPT !.left = None, !.right = None]
            IN  IF ~IsSuccessor(right)
                THEN [self  |-> taken,
                      link  |-> [right EXCEPT !.left = left],
                      panic |-> FALSE]
                ELSE LET g == GetSuccessor(right) IN
                     IF g.panic \/ ~IsSome(g.succ)
                     THEN [self |-> taken, link |-> None, panic |-> TRUE]
                     ELSE [self  |-> taken,
                           link  |-> [g.succ EXCEPT !.left = left, !.right = g.self],
                           panic |-> FALSE]

\* Returns [self, link, panic]: link is the NodeLink that replaces self.
ReplacementNode(self) ==
    LET hc == HasChildren(self) IN
    CASE hc = <<FALSE, FALSE>> ->
            [self |-> self, link |-> None, panic |-> FALSE]
      [] hc = <<TRUE, FALSE>> ->
            [self |-> [self EXCEPT !.left = None], link |-> self.left, panic |-> FALSE]
      [] hc = <<FALSE, TRUE>> ->
            [self |-> [self EXCEPT !.right = None], link |-> self.right, panic |-> FALSE]
      [] hc = <<TRUE, TRUE>> ->
            LET left   == self.left
                right  == self.right
                taken  == [self EXCEPT !.left = None, !.right = None]
            IN  IF IsSuccessor(right)
                THEN [self  |-> taken,
                      link  |-> [right EXCEPT !.left = left],
                      panic |-> FALSE]
                ELSE LET g == GetSuccessor(right) IN
                     IF g.panic \/ ~IsSome(g.succ)
                     THEN [self |-> taken, link |-> None, panic |-> TRUE]  \* unwrap, node.rs:249
                     ELSE [self  |-> taken,
                           link  |-> [g.succ EXCEPT !.left = left, !.right = g.self],
                           panic |-> FALSE]

\* RemoveAction (action.rs)
Return(value) == [tag |-> "Return", value |-> value]

UpdateNode(link) == [tag |-> "UpdateNode", node |-> link]

\* NodeRemove, except that the parent of the node found installs the
\* replacement and hands the replace outcome on to its own caller.
RECURSIVE NodeRemoveForwardsUpdate(_, _)
NodeRemoveForwardsUpdate(self, key) ==
    LET c == Cmp(key, self.key) IN
    IF c = "Equal"
    THEN LET r == ReplacementNode(self) IN
         [self |-> r.self, action |-> UpdateNode(r.link), panic |-> r.panic]
    ELSE LET node_link == IF c = "Greater" THEN self.right ELSE self.left IN
         IF IsSome(node_link)
         THEN LET r == NodeRemoveForwardsUpdate(node_link, key) IN
              IF r.action.tag = "Return"
              THEN [self   |-> IF c = "Greater" THEN [self EXCEPT !.right = r.self]
                                                ELSE [self EXCEPT !.left = r.self],
                    action |-> r.action, panic |-> r.panic]
              ELSE LET new_node == r.action.node
                   IN  [self   |-> IF c = "Greater" THEN [self EXCEPT !.right = new_node]
                                                    ELSE [self EXCEPT !.left = new_node],
                        action |-> UpdateNode(new_node), panic |-> r.panic]
         ELSE [self |-> self, action |-> Return(None), panic |-> FALSE]

\* Returns [self, action, panic].
RECURSIVE NodeRemove(_, _)
NodeRemove(self, key) ==
    LET c == Cmp(key, self.key) IN
    IF c = "Equal"
    THEN LET r == ReplacementNode(self) IN
         [self |-> r.self, action |-> UpdateNode(r.link), panic |-> r.panic]
    ELSE LET node_link == IF c = "Greater" THEN self.right ELSE self.left IN
         IF IsSome(node_link)
         THEN LET r == NodeRemove(node_link, key) IN
              IF r.panic
              THEN [self   |-> IF c = "Greater" THEN [self EXCEPT !.right = r.self]
                                                ELSE [self EXCEPT !.left = r.self],
                    action |-> r.action, panic |-> TRUE]
              ELSE IF r.action.tag = "Return"
              THEN [self   |-> IF c = "Greater" THEN [self EXCEPT !.right = r.self]
                                                ELSE [self EXCEPT !.left = r.self],
                    action |-> r.action, panic |-> FALSE]
              ELSE LET value    == r.self.value
                       new_node == r.action.node
                   IN  [self   |-> IF c = "Greater" THEN [self EXCEPT !.right = new_node]
                                                    ELSE [self EXCEPT !.left = new_node],
                        action |-> Return(Some(value)), panic |-> FALSE]
         ELSE [self |-> self, action |-> Return(None), panic |-> FALSE]

\* NodeRemovePosition, except that the node found leaves its position empty
\* whatever children it has.
RECURSIVE NodeRemovePositionDropsChild(_, _)
NodeRemovePositionDropsChild(self, pos) ==
    LET node_link == IF pos = "First" THEN self.left ELSE self.right IN
    IF IsSome(node_link)
    THEN LET r == NodeRemovePositionDropsChild(node_link, pos) IN
         IF r.action.tag = "Return"
         THEN [self   |-> IF pos = "First" THEN [self EXCEPT !.left = r.self]
                                           ELSE [self EXCEPT !.right = r.self],
               action |-> r.action, panic |-> FALSE]
         ELSE LET value    == r.self.value
                  new_node == r.action.node
              IN  [self   |-> IF pos = "First" THEN [self EXCEPT !.left = new_node]
                                               ELSE [self EXCEPT !.right = new_node],
                   action |-> Return(Some(value)), panic |-> FALSE]
    ELSE [self |-> self, action |-> UpdateNode(None), panic |-> FALSE]

\* NodePosition is "First" or "Last".  Returns [self, action, panic].
RECURSIVE NodeRemovePosition(_, _)
NodeRemovePosition(self, pos) ==
    LET node_link == IF pos = "First" THEN self.left ELSE self.right IN
    IF IsSome(node_link)
    THEN LET r == NodeRemovePosition(node_link, pos) IN
         IF r.panic
         THEN [self   |-> IF pos = "First" THEN [self EXCEPT !.left = r.self]
                                           ELSE [self EXCEPT !.right = r.self],
               action |-> r.action, panic |-> TRUE]
         ELSE IF r.action.tag = "Return"
         THEN [self   |-> IF pos = "First" THEN [self EXCEPT !.left = r.self]
                                           ELSE [self EXCEPT !.right = r.self],
               action |-> r.action, panic |-> FALSE]
         ELSE LET value    == r.self.value
                  new_node == r.action.node
              IN  [self   |-> IF pos = "First" THEN [self EXCEPT !.left = new_node]
                                               ELSE [self EXCEPT !.right = new_node],
                   action |-> Return(Some(value)), panic |-> FALSE]
    ELSE LET r == ReplacementNode(self) IN
         [self |-> r.self, action |-> UpdateNode(r.link), panic |-> r.panic]

\* fill_owned_vec, fill_ref_vec and fill_mut_vec: left subtree, self, right
\* subtree.  A pair is <<key, value>>, whether owned or borrowed.
RECURSIVE NodeFillOwnedVec(_)
NodeFillOwnedVec(self) ==
    (IF IsSome(self.left) THEN NodeFillOwnedVec(self.left) ELSE <<>>)
    \o <<<<self.key, self.value>>>>
    \o (IF IsSome(self.right) THEN NodeFillOwnedVec(self.right) ELSE <<>>)

\* NodeFillRefVec, except that the right subtree is not visited.
RECURSIVE NodeFillRefVecNoRight(_)
NodeFillRefVecNoRight(self) ==
    (IF IsSome(self.left) THEN NodeFillRefVecNoRight(self.left) ELSE <<>>)
    \o <<<<self.key, self.value>>>>

RECURSIVE NodeFillRefVec(_)
NodeFillRefVec(self) ==
    (IF IsSome(self.left) THEN NodeFillRefVec(self.left) ELSE <<>>)
    \o <<<<self.key, self.value>>>>
    \o (IF IsSome(self.right) THEN NodeFillRefVec(self.right) ELSE <<>>)

RECURSIVE NodeFillMutVec(_)
NodeFillMutVec(self) ==
    (IF IsSome(self.left) THEN NodeFillMutVec(self.left) ELSE <<>>)
    \o <<<<self.key, self.value>>>>
    \o (IF IsSome(self.right) THEN NodeFillMutVec(self.right) ELSE <<>>)

\* Display for Node: one block per node (its key, its value, the keys of its
\* children), then the dump of the left and of the right subtree.  The
\* address printed by {:p} is left out.
RECURSIVE NodeDisplay(_)
NodeDisplay(self) ==
    LET key_left  == IF IsSome(self.left) THEN Some(self.left.key) ELSE None
        key_right == IF IsSome(self.right) THEN Some(self.right.key) ELSE None
        node_left  == IF IsSome(self.left) THEN NodeDisplay(self.left) ELSE <<>>
        node_right == IF IsSome(self.right) THEN NodeDisplay(self.right) ELSE <<>>
    IN  <<[key |-> self.key, value |-> self.value,
           left_key |-> key_left, right_key |-> key_right]>>
        \o node_left \o node_right

-----------------------------------------------------------------------------
(* lib.rs: each operator returns the map's fields as the call leaves them, *)
(* the call's result, and whether it panicked.                             *)

MapNew == [head |-> None, len |-> 0]

\* MapClear, except that len is left as it was.
MapClearKeepsLen(h, n) == [head |-> None, len |-> n]

MapClear(h, n) == [head |-> None, len |-> 0]

MapIsEmpty(n) == n = 0

MapInsert(h, n, key, value) ==
    IF IsSome(h)
    THEN LET r == NodeInsert(h, key, value) IN
         [head |-> r.self, len |-> IF r.action = "Increment" THEN n + 1 ELSE n]
    ELSE [head |-> NodeNew(key, value), len |-> n + 1]

MapInsertOr(h, n, key, value, func) ==
    IF IsSome(h)
    THEN LET r == NodeInsertOr(h, key, value, func) IN
         [head |-> r.self, len |-> IF r.action = "Increment" THEN n + 1 ELSE n]
    ELSE [head |-> NodeNew(key, value), len |-> n + 1]

MapGet(h, key) == IF IsSome(h) THEN NodeGet(h, key) ELSE None

MapGetMut(h, key, w) ==
    IF IsSome(h)
    THEN LET r == NodeGetMut(h, key, w) IN [head |-> r.self, ret |-> r.ret]
    ELSE [head |-> h, ret |-> None]

MapFirstKeyValue(h) == IF IsSome(h) THEN NodeFirstKeyValue(h) ELSE None

MapLastKeyValue(h) == IF IsSome(h) THEN NodeLastKeyValue(h) ELSE None

\* MapRemove, except that removing the head leaves len as it was.
MapRemoveHeadKeepsLen(h, n, key) ==
    IF IsSome(h)
    THEN LET r == NodeRemove(h, key) IN
         IF r.panic
         THEN [head |-> r.self, len |-> n, ret |-> None, panic |-> TRUE]
         ELSE IF r.action.tag = "Return"
         THEN [head  |-> r.self,
               len   |-> IF IsSome(r.action.value) THEN n - 1 ELSE n,
               ret   |-> r.action.value,
               panic |-> FALSE]
         ELSE LET old_head == r.self IN
              [head  |-> r.action.node,
               len   |-> n,
               ret   |-> Some(old_head.value),
               panic |-> FALSE]
    ELSE [head |-> h, len |-> n, ret |-> None, panic |-> FALSE]

\* MapRemove, except that len is decremented whenever the map has a head, as
\* _remove_position does.
MapRemoveAlwaysDecrements(h, n, key) ==
    IF IsSome(h)
    THEN LET r == NodeRemove(h, key) IN
         IF r.panic
         THEN [head |-> r.self, len |-> n, ret |-> None, panic |-> TRUE]
         ELSE IF r.action.tag = "Return"
         THEN [head  |-> r.self,
               len   |-> n - 1,
               ret   |-> r.action.value,
               panic |-> FALSE]
         ELSE LET old_head == r.self IN
              [head  |-> r.action.node,
               len   |-> n - 1,
               ret   |-> Some(old_head.value),
               panic |-> FALSE]
    ELSE [head |-> h, len |-> n, ret |-> None, panic |-> FALSE]

MapRemove(h, n, key) ==
    IF IsSome(h)
    THEN LET r == NodeRemove(h, key) IN
         IF r.panic
         THEN [head |-> r.self, len |-> n, ret |-> None, panic |-> TRUE]
         ELSE IF r.action.tag = "Return"
         THEN [head  |-> r.self,
               len   |-> IF IsSome(r.action.value) THEN n - 1 ELSE n,
               ret   |-> r.action.value,
               panic |-> FALSE]
         ELSE LET old_head == r.self IN
              [head  |-> r.action.node,
               len   |-> n - 1,
               ret   |-> Some(old_head.value),
               panic |-> FALSE]
    ELSE [head |-> h, len |-> n, ret |-> None, panic |-> FALSE]

MapRemovePosition(h, n, position) ==
    IF IsSome(h)
    THEN LET r == NodeRemovePosition(h, position) IN
         IF r.panic
         THEN [head |-> r.self, len |-> n - 1, ret |-> None, panic |-> TRUE]
         ELSE IF r.action.tag = "Return"
         THEN [head |-> r.self, len |-> n - 1, ret |-> r.action.value, panic |-> FALSE]
         ELSE LET old_head == r.self IN
              [head  |-> r.action.node,
               len   |-> n - 1,
               ret   |-> Some(old_head.value),
               panic |-> FALSE]
    ELSE [head |-> h, len |-> n, ret |-> None, panic |-> FALSE]

MapRemoveFirst(h, n) == MapRemovePosition(h, n, "First")

\* MapRemoveLast, except that it asks for the first position.
MapRemoveLastAsFirst(h, n) == MapRemovePosition(h, n, "First")

MapRemoveLast(h, n) == MapRemovePosition(h, n, "Last")

\* MapIndex, except that an absent key yields a sentinel instead of a panic.
MapIndexSentinel(h, key) == [ret |-> MapGet(h, key), panic |-> FALSE]

\* Index::index: the value get finds, or a panic (expect on None).
MapIndex(h, key) ==
    LET g == MapGet(h, key) IN
    IF IsSome(g) THEN [ret |-> g, panic |-> FALSE]
    ELSE [ret |-> None, panic |-> TRUE]

\* Display for BstMap.  The arguments of write! are evaluated first, and
\* self.head.as_ref().unwrap() is one of them (lib.rs:284).
MapDisplay(h, n) ==
    LET node_display == IF IsSome(h) THEN NodeDisplay(h) ELSE <<>> IN
    IF IsSome(h)
    THEN [ret   |-> Some([len |-> n, head_key |-> h.key, nodes |-> node_display]),
          panic |-> FALSE]
    ELSE [ret |-> None, panic |-> TRUE]

-----------------------------------------------------------------------------
(* iter.rs *)

\* Vec::swap_remove(0): the first element is taken out and the last element
\* put in its place.  Returns [vec, item].
SwapRemoveFirst(vec) ==
    [vec  |-> IF Len(vec) = 1 THEN <<>>
              ELSE <<vec[Len(vec)]>> \o SubSeq(vec, 2, Len(vec) - 1),
     item |-> vec[1]]

\* IntoIterator for BstMap, &BstMap and &mut BstMap.
IntoIterOwned(h) ==
    [pairs |-> IF IsSome(h) THEN NodeFillOwnedVec(h) ELSE <<>>]

IntoIterRef(h, n) ==
    [pairs |-> IF IsSome(h) THEN NodeFillRefVec(h) ELSE <<>>, index |-> 0, len |-> n]

IntoIterMut(h) ==
    [pairs |-> IF IsSome(h) THEN NodeFillMutVec(h) ELSE <<>>]

\* Iterator::next of Iter, IterRef and IterMut.  Returns [it, ret, panic].
IterNext(it) ==
    IF Len(it.pairs) = 0 THEN [it |-> it, ret |-> None, panic |-> FALSE]
    ELSE LET r == SwapRemoveFirst(it.pairs) IN
         [it |-> [it EXCEPT !.pairs = r.vec], ret |-> Some(r.item), panic |-> FALSE]

IterRefNext(it) ==
    IF it.index = it.len THEN [it |-> it, ret |-> None, panic |-> FALSE]
    ELSE IF it.index >= Len(it.pairs)
    THEN [it |-> it, ret |-> None, panic |-> TRUE]        \* index out of bounds
    ELSE [it    |-> [it EXCEPT !.index = it.index + 1],
          ret   |-> Some(it.pairs[it.index + 1]),
          panic |-> FALSE]

IterMutNext(it) ==
    IF Len(it.pairs) = 0 THEN [it |-> it, ret |-> None, panic |-> FALSE]
    ELSE LET r == SwapRemoveFirst(it.pairs) IN
         [it |-> [it EXCEPT !.pairs = r.vec], ret |-> Some(r.item), panic |-> FALSE]

FlavorNext(flavor, it) ==
    CASE flavor = "owned" -> IterNext(it)
      [] flavor = "ref" -> IterRefNext(it)
      [] flavor = "mut" -> IterMutNext(it)

\* A full iteration (for pair in ...): next is called until it returns None.
\* Returns the items yielded, the iterator as it is left, and what one more
\* call of next returns then.
RECURSIVE Collect(_, _)
Collect(flavor, it) ==
    LET r == FlavorNext(flavor, it) IN
    IF r.panic THEN [items |-> <<>>, it |-> r.it, after |-> None, panic |-> TRUE]
    ELSE IF r.ret = None
    THEN [items |-> <<>>, it |-> r.it, after |-> FlavorNext(flavor, r.it).ret,
          panic |-> FALSE]
    ELSE LET rest == Collect(flavor, r.it) IN
         [items |-> <<r.ret.some>> \o rest.items, it |-> rest.it,
          after |-> rest.after, panic |-> rest.panic]

\* The tree with w written through every &mut V among the items yielded.
RECURSIVE WriteThrough(_, _, _)
WriteThrough(t, items, w) ==
    IF t = None THEN None
    ELSE [key   |-> t.key,
          value |-> IF \E i \in 1..Len(items) : items[i][1] = t.key
                    THEN Apply(w, t.value) ELSE t.value,
          left  |-> WriteThrough(t.left, items, w),
          right |-> WriteThrough(t.right, items, w)]

-----------------------------------------------------------------------------
(* The reference map: a function from keys to Some(value) or None. *)

RefKeys(r) == {k \in Keys : r[k] # None}

RefMin(r) == CHOOSE k \in RefKeys(r) : \A j \in RefKeys(r) : k <= j

RefMax(r) == CHOOSE k \in RefKeys(r) : \A j \in RefKeys(r) : k >= j

RefEmpty == [k \in Keys |-> None]

-----------------------------------------------------------------------------
(* The state machine: one action per public call of BstMap. *)

Call(op, key, value, func, ret, panic) ==
    [op |-> op, key |-> key, value |-> value, func |-> func, ret |-> ret,
     panic |-> panic, pre_head |-> head, pre_len |-> len]

\* No call is under observation: the caller has taken the last result.
NoCall ==
    [op |-> "none", key |-> 0, value |-> "-", func |-> "-", ret |-> None,
     panic |-> FALSE, pre_head |-> None, pre_len |-> 0]

Idle == last = NoCall

Init ==
    /\ head = MapNew.head
    /\ len = MapNew.len
    /\ ref = RefEmpty
    /\ last = NoCall

Insert(key, value) ==
    LET m == MapInsert(head, len, key, value) IN
    /\ Idle
    /\ head' = m.head
    /\ len' = m.len
    /\ ref' = [ref EXCEPT ![key] = Some(value)]
    /\ last' = Call("insert", key, value, "-", None, FALSE)

InsertOr(key, value, func) ==
    LET m == MapInsertOr(head, len, key, value, func) IN
    /\ Idle
    /\ head' = m.head
    /\ len' = m.len
    /\ ref' = [ref EXCEPT ![key] = IF ref[key] = None THEN Some(value)
                                   ELSE Some(Apply(func, ref[key].some))]
    /\ last' = Call("insert_or", key, value, func, None, FALSE)

Get(key) ==
    /\ Idle
    /\ UNCHANGED <<head, len, ref>>
    /\ last' = Call("get", key, "-", "-", MapGet(head, key), FALSE)

\* The caller writes through the reference only when it was handed one.
GetMut(key, w) ==
    LET m == MapGetMut(head, key, w) IN
    /\ Idle
    /\ head' = m.head
    /\ UNCHANGED len
    /\ ref' = IF IsSome(m.ret) /\ ref[key] # None
              THEN [ref EXCEPT ![key] = Some(Apply(w, ref[key].some))]
              ELSE ref
    /\ last' = Call("get_mut", key, "-", w, m.ret, FALSE)

FirstKeyValue ==
    /\ Idle
    /\ UNCHANGED <<head, len, ref>>
    /\ last' = Call("first_key_value", 0, "-", "-", MapFirstKeyValue(head), FALSE)

LastKeyValue ==
    /\ Idle
    /\ UNCHANGED <<head, len, ref>>
    /\ last' = Call("last_key_value", 0, "-", "-", MapLastKeyValue(head), FALSE)

Remove(key) ==
    LET m == MapRemove(head, len, key) IN
    /\ Idle
    /\ head' = m.head
    /\ len' = m.len
    /\ ref' = [ref EXCEPT ![key] = None]
    /\ last' = Call("remove", key, "-", "-", m.ret, m.panic)

RemoveFirst ==
    LET m == MapRemoveFirst(head, len) IN
    /\ Idle
    /\ head' = m.head
    /\ len' = m.len
    /\ ref' = IF RefKeys(ref) = {} THEN ref ELSE [ref EXCEPT ![RefMin(ref)] = None]
    /\ last' = Call("remove_first", 0, "-", "-", m.ret, m.panic)

RemoveLast ==
    LET m == MapRemoveLast(head, len) IN
    /\ Idle
    /\ head' = m.head
    /\ len' = m.len
    /\ ref' = IF RefKeys(ref) = {} THEN ref ELSE [ref EXCEPT ![RefMax(ref)] = None]
    /\ last' = Call("remove_last", 0, "-", "-", m.ret, m.panic)

Clear ==
    LET m == MapClear(head, len) IN
    /\ Idle
    /\ head' = m.head
    /\ len' = m.len
    /\ ref' = RefEmpty
    /\ last' = Call("clear", 0, "-", "-", None, FALSE)

\* The caller consumes the result of the last call and goes on.
Resume ==
    /\ ~Idle
    /\ last' = NoCall
    /\ UNCHANGED <<head, len, ref>>

Next ==
    \/ \E key \in Keys, value \in Values : Insert(key, value)
    \/ \E key \in Keys, value \in Values, func \in Funcs : InsertOr(key, value, func)
    \/ \E key \in Keys : Get(key)
    \/ \E key \in Keys, w \in Writes : GetMut(key, w)
    \/ FirstKeyValue
    \/ LastKeyValue
    \/ \E key \in Keys : Remove(key)
    \/ RemoveFirst
    \/ RemoveLast
    \/ Clear
    \/ Resume

Spec == Init /\ [][Next]_vars

\* The calls that change the map, without the lookups.
NextMutate ==
    \/ \E key \in Keys, value \in Values : Insert(key, value)
    \/ \E key \in Keys, value \in Values, func \in Funcs : InsertOr(key, value, func)
    \/ \E key \in Keys : Remove(key)
    \/ RemoveFirst
    \/ RemoveLast
    \/ Clear
    \/ Resume

SpecMutate == Init /\ [][NextMutate]_vars

\* for pair in map: the map is moved into the iterator and dropped with it;
\* the caller goes on with a map of its own making, BstMap::new().
IterateOwned ==
    LET c == Collect("owned", IntoIterOwned(head)) IN
    /\ Idle
    /\ head' = MapNew.head
    /\ len' = MapNew.len
    /\ ref' = RefEmpty
    /\ last' = Call("into_iter", 0, "-", "-", [items |-> c.items, after |-> c.after],
                    c.panic)

\* for pair in map.iter()
IterateRef ==
    LET c == Collect("ref", IntoIterRef(head, len)) IN
    /\ Idle
    /\ UNCHANGED <<head, len, ref>>
    /\ last' = Call("iter", 0, "-", "-", [items |-> c.items, after |-> c.after],
                    c.panic)

\* for (key, value) in map.iter_mut(), the caller writing w through value
IterateMut(w) ==
    LET c == Collect("mut", IntoIterMut(head)) IN
    /\ Idle
    /\ head' = WriteThrough(head, c.items, w)
    /\ UNCHANGED len
    /\ ref' = [k \in Keys |->
                 IF ref[k] # None /\ \E i \in 1..Len(c.items) : c.items[i][1] = k
                 THEN Some(Apply(w, ref[k].some)) ELSE ref[k]]
    /\ last' = Call("iter_mut", 0, "-", w, [items |-> c.items, after |-> c.after],
                    c.panic)

\* map[key]
Index(key) ==
    LET m == MapIndex(head, key) IN
    /\ Idle
    /\ UNCHANGED <<head, len, ref>>
    /\ last' = Call("index", key, "-", "-", m.ret, m.panic)

\* format!("{}", map)
Display ==
    LET m == MapDisplay(head, len) IN
    /\ Idle
    /\ UNCHANGED <<head, len, ref>>
    /\ last' = Call("display", 0, "-", "-", m.ret, m.panic)

\* The calls that build and empty a map, and those that read all of it.
NextRead ==
    \/ \E key \in Keys, value \in Values : Insert(key, value)
    \/ \E key \in Keys : Remove(key)
    \/ RemoveFirst
    \/ RemoveLast
    \/ Clear
    \/ IterateOwned
    \/ IterateRef
    \/ \E w \in Writes : IterateMut(w)
    \/ \E key \in Keys : Index(key)
    \/ Display
    \/ Resume

SpecRead == Init /\ [][NextRead]_vars

\* A run of remove_first and remove_last calls on a map of start_len entries:
\* what the calls of each kind have returned so far, in call order.
InDrain == last.op = "drain"

DrainCall(firsts, lasts, panic) ==
    [op         |-> "drain",
     start_head |-> IF InDrain THEN last.start_head ELSE head,
     start_len  |-> IF InDrain THEN last.start_len ELSE len,
     firsts     |-> (IF InDrain THEN last.firsts ELSE <<>>) \o firsts,
     lasts      |-> (IF InDrain THEN last.lasts ELSE <<>>) \o lasts,
     panic      |-> (InDrain /\ last.panic) \/ panic]

\* Fewer calls have been made than the map had entries at the start.
DrainGoesOn ==
    \/ Idle /\ len > 0
    \/ InDrain /\ Len(last.firsts) + Len(last.lasts) < last.start_len

DrainFirst ==
    LET m == MapRemoveFirst(head, len) IN
    /\ DrainGoesOn
    /\ head' = m.head
    /\ len' = m.len
    /\ ref' = IF RefKeys(ref) = {} THEN ref ELSE [ref EXCEPT ![RefMin(ref)] = None]
    /\ last' = DrainCall(<<m.ret>>, <<>>, m.panic)

DrainLast ==
    LET m == MapRemoveLast(head, len) IN
    /\ DrainGoesOn
    /\ head' = m.head
    /\ len' = m.len
    /\ ref' = IF RefKeys(ref) = {} THEN ref ELSE [ref EXCEPT ![RefMax(ref)] = None]
    /\ last' = DrainCall(<<>>, <<m.ret>>, m.panic)

\* A map is built, then emptied by remove_first and remove_last calls.
NextDrain ==
    \/ \E key \in Keys, value \in Values : Insert(key, value)
    \/ \E key \in Keys : Remove(key)
    \/ Resume
    \/ DrainFirst
    \/ DrainLast

SpecDrain == Init /\ [][NextDrain]_vars

-----------------------------------------------------------------------------
(* The calls one recursive step at a time.                                 *)
(*                                                                         *)
(* A call in flight is its stack of Node-level calls: each frame is the    *)
(* function running and the node it runs on, named by the links followed   *)
(* from the head.  The searches only read the tree on the way down; what   *)
(* the call changes is written when it returns to the caller, as the       *)
(* operators above compute it.                                             *)

Frame(fn, at) == [fn |-> fn, at |-> at]

RECURSIVE NodeAt(_, _)
NodeAt(t, at) ==
    IF at = <<>> THEN t
    ELSE IF t = None THEN None
    ELSE NodeAt(IF Head(at) = "left" THEN t.left ELSE t.right, Tail(at))

\* The body of a function runs to a return without calling on a child.
NoCallee == [fn |-> "return", link |-> "-"]

Callee(fn, link) == [fn |-> fn, link |-> link]

\* if let Some(node) = node_link { node.fn(..) } else { .. }
SearchCallee(fn, self, link) ==
    IF IsSome(self[link]) THEN Callee(fn, link) ELSE NoCallee

\* replacement_node calls get_successor on the right child when self has two
\* children and the right child is not itself the successor.
ReplacementCallee(self) ==
    IF HasChildren(self) = <<TRUE, TRUE>> /\ ~IsSuccessor(self.right)
    THEN Callee("get_successor", "right")
    ELSE NoCallee

\* The call the body of fn makes when it runs on self: the function called
\* and the link to the node it is called on.  arg is the key looked for, or
\* the NodePosition of remove_position.
NodeCallee(fn, self, arg) ==
    CASE fn \in {"insert", "insert_or", "get"} ->
           (CASE Cmp(arg, self.key) = "Greater" -> SearchCallee(fn, self, "right")
              [] Cmp(arg, self.key) = "Less" -> SearchCallee(fn, self, "left")
              [] OTHER -> NoCallee)
      [] fn = "get_mut" ->
           (CASE Cmp(arg, self.key) = "Greater" -> SearchCallee(fn, self, "right")
              [] Cmp(arg, self.key) = "Less" -> SearchCallee(fn, self, "right")
              [] OTHER -> NoCallee)
      [] fn = "first_key_value" -> SearchCallee(fn, self, "left")
      [] fn = "last_key_value" -> SearchCallee(fn, self, "right")
      [] fn = "remove" ->
           (CASE Cmp(arg, self.key) = "Greater" -> SearchCallee(fn, self, "right")
              [] Cmp(arg, self.key) = "Less" -> SearchCallee(fn, self, "left")
              [] OTHER -> ReplacementCallee(self))
      [] fn = "remove_position" ->
           LET link == IF arg = "First" THEN "left" ELSE "right" IN
           IF IsSome(self[link]) THEN Callee(fn, link) ELSE ReplacementCallee(self)
      [] fn = "get_successor" ->
           IF ~IsSome(self.left) THEN NoCallee        \* the unwrap panics
           ELSE IF IsSuccessor(self.left) THEN NoCallee
           ELSE Callee("get_successor", "left")

\* NodeResumes, except that get, handed the result of the call it made on a
\* child, runs its body again instead of returning that result.
NodeResumesCallsAgain(fn) == IF fn = "get" THEN "call" ELSE "return"

\* What fn does when the call it made on a child returns: every function
\* returns in its turn, passing the result on or, in remove and
\* remove_position, installing the replacement first.
NodeResumes(fn) == "return"

\* The Node function a BstMap method calls on its head.
NodeFn(call) ==
    IF call \in {"remove_first", "remove_last"} THEN "remove_position" ELSE call

Running == last.op = "run"

RunArg ==
    CASE last.call = "remove_first" -> "First"
      [] last.call = "remove_last" -> "Last"
      [] OTHER -> last.key

\* A BstMap method is called: it calls the Node function on the head, if
\* there is one.
Begin(call, key, value, func) ==
    /\ Idle
    /\ last' = [op    |-> "run", call |-> call, key |-> key, value |-> value,
                func  |-> func,
                stack |-> IF IsSome(head) THEN <<Frame(NodeFn(call), <<>>)>> ELSE <<>>,
                phase |-> IF IsSome(head) THEN "call" ELSE "return"]
    /\ UNCHANGED <<head, len, ref>>

\* The function on top of the stack calls on a child.
Enter ==
    /\ Running
    /\ last.phase = "call"
    /\ LET top == last.stack[Len(last.stack)]
           c   == NodeCallee(top.fn, NodeAt(head, top.at), RunArg)
       IN /\ c # NoCallee
          /\ last' = [last EXCEPT !.stack = Append(@, Frame(c.fn, Append(top.at, c.link)))]
    /\ UNCHANGED <<head, len, ref>>

\* The function on top of the stack returns to the one that called it.
Leave ==
    /\ Running
    /\ last.stack # <<>>
    /\ LET n   == Len(last.stack)
           top == last.stack[n]
       IN /\ \/ last.phase = "return"
             \/ NodeCallee(top.fn, NodeAt(head, top.at), RunArg) = NoCallee
          /\ last' = [last EXCEPT
                        !.stack = SubSeq(@, 1, n - 1),
                        !.phase = IF n = 1 THEN "return"
                                  ELSE NodeResumes(last.stack[n - 1].fn)]
    /\ UNCHANGED <<head, len, ref>>

\* What the BstMap method leaves behind once the Node call has returned:
\* the map, the reference map, and its own result.
RunEffect ==
    LET unchanged == [head |-> head, len |-> len, ref |-> ref, ret |-> None,
                      panic |-> FALSE]
        removed(m, k) ==
            [head |-> m.head, len |-> m.len, ret |-> m.ret, panic |-> m.panic,
             ref |-> IF k \in Keys THEN [ref EXCEPT ![k] = None] ELSE ref]
    IN
    CASE last.call = "insert" ->
           LET m == MapInsert(head, len, last.key, last.value) IN
           [unchanged EXCEPT !.head = m.head, !.len = m.len,
                             !.ref = [ref EXCEPT ![last.key] = Some(last.value)]]
      [] last.call = "insert_or" ->
           LET m == MapInsertOr(head, len, last.key, last.value, last.func) IN
           [unchanged EXCEPT
              !.head = m.head, !.len = m.len,
              !.ref = [ref EXCEPT ![last.key] =
                         IF ref[last.key] = None THEN Some(last.value)
                         ELSE Some(Apply(last.func, ref[last.key].some))]]
      [] last.call = "get" -> [unchanged EXCEPT !.ret = MapGet(head, last.key)]
      [] last.call = "get_mut" ->
           LET m == MapGetMut(head, last.key, last.func) IN
           [unchanged EXCEPT
              !.head = m.head, !.ret = m.ret,
              !.ref = IF IsSome(m.ret) /\ ref[last.key] # None
                      THEN [ref EXCEPT ![last.key] =
                              Some(Apply(last.func, ref[last.key].some))]
                      ELSE ref]
      [] last.call = "first_key_value" ->
           [unchanged EXCEPT !.ret = MapFirstKeyValue(head)]
      [] last.call = "last_key_value" ->
           [unchanged EXCEPT !.ret = MapLastKeyValue(head)]
      [] last.call = "remove" -> removed(MapRemove(head, len, last.key), last.key)
      [] last.call = "remove_first" ->
           removed(MapRemoveFirst(head, len),
                   IF RefKeys(ref) = {} THEN 0 ELSE RefMin(ref))
      [] last.call = "remove_last" ->
           removed(MapRemoveLast(head, len),
                   IF RefKeys(ref) = {} THEN 0 ELSE RefMax(ref))

\* The Node call has returned (or there was no head to call it on): the
\* BstMap method returns to the caller.
Complete ==
    /\ Running
    /\ last.stack = <<>>
    /\ last.phase = "return"
    /\ head' = RunEffect.head
    /\ len' = RunEffect.len
    /\ ref' = RunEffect.ref
    /\ last' = Call(last.call, last.key, last.value, last.func, RunEffect.ret,
                    RunEffect.panic)

\* The Node-level calls of a call in flight go on, one calling the next or
\* returning to its caller: the program is single-threaded and synchronous.
RunStep == Enter \/ Leave

\* The Node call has returned to the BstMap method (or was never made).
Returned == Running /\ last.stack = <<>>

\* No search reads a value: the calls are made with one value, one closure
\* and a caller that only reads through get_mut's reference.
NextRun ==
    \/ \E key \in Keys : Begin("insert", key, "a", "-")
    \/ \E key \in Keys : Begin("insert_or", key, "a", "setA")
    \/ \E key \in Keys : Begin("get", key, "-", "-")
    \/ \E key \in Keys : Begin("get_mut", key, "-", "keep")
    \/ Begin("first_key_value", 0, "-", "-")
    \/ Begin("last_key_value", 0, "-", "-")
    \/ \E key \in Keys : Begin("remove", key, "-", "-")
    \/ Begin("remove_first", 0, "-", "-")
    \/ Begin("remove_last", 0, "-", "-")
    \/ Enter
    \/ Leave
    \/ Complete
    \/ ~Running /\ Resume      \* the caller has a result only once the call is over

SpecRun == Init /\ [][NextRun]_vars /\ WF_vars(RunStep)

-----------------------------------------------------------------------------
(* What a tree holds, read off its structure (no search involved). *)

RECURSIVE KeysOf(_)
KeysOf(t) ==
    IF t = None THEN {} ELSE {t.key} \cup KeysOf(t.left) \cup KeysOf(t.right)

RECURSIVE Entries(_)
Entries(t) ==
    IF t = None THEN {}
    ELSE {<<t.key, t.value>>} \cup Entries(t.left) \cup Entries(t.right)

RECURSIVE Size(_)
Size(t) == IF t = None THEN 0 ELSE 1 + Size(t.left) + Size(t.right)

RECURSIVE CountKey(_, _)
CountKey(t, k) ==
    IF t = None THEN 0
    ELSE (IF t.key = k THEN 1 ELSE 0) + CountKey(t.left, k) + CountKey(t.right, k)

RECURSIVE IsBST(_)
IsBST(t) ==
    \/ t = None
    \/ /\ \A k \in KeysOf(t.left) : k < t.key
       /\ \A k \in KeysOf(t.right) : k > t.key
       /\ IsBST(t.left)
       /\ IsBST(t.right)

\* The subtree whose root holds key k (None when no node does).
RECURSIVE SubtreeAt(_, _)
SubtreeAt(t, k) ==
    IF t = None THEN None
    ELSE IF t.key = k THEN t
    ELSE IF SubtreeAt(t.left, k) # None THEN SubtreeAt(t.left, k)
    ELSE SubtreeAt(t.right, k)

ValueAt(t, k) == SubtreeAt(t, k).value

MinKey(t) == CHOOSE k \in KeysOf(t) : \A j \in KeysOf(t) : k <= j

MaxKeyOf(t) == CHOOSE k \in KeysOf(t) : \A j \in KeysOf(t) : k >= j

\* The node holding k has two children, and its in-order successor lies
\* below its right child and has a right subtree of its own.
DeepSuccessorCase(t, k) ==
    LET n == SubtreeAt(t, k) IN
    /\ n # None
    /\ n.left # None
    /\ n.right # None
    /\ n.right.left # None
    /\ n.right.left.left = None
    /\ n.right.left.right # None

-----------------------------------------------------------------------------
(* Claims *)

\* C1: in every reachable state every node satisfies the strict BST
\* invariant: all keys of its left subtree are less than its key and all keys
\* of its right subtree are greater, so that no key occurs twice.
C1_BstInvariant ==
    /\ IsBST(head)
    /\ \A k \in Keys : CountKey(head, k) <= 1

\* A removal of a node with two children whose successor was found below the
\* right child (and had a right subtree) has just happened.
C1_Witness ==
    /\ last.op = "remove"
    /\ DeepSuccessorCase(last.pre_head, last.key)
    /\ IsSome(last.ret)
    /\ Size(head) = 4
    /\ IsBST(head)

\* C2: len equals the number of nodes reachable from head, and len is zero if
\* and only if head is absent.
C2_LenCountsNodes ==
    /\ len = Size(head)
    /\ (len = 0) <=> (head = None)

\* The head itself was removed from a map of several entries.
C2_Witness ==
    /\ last.op = "remove"
    /\ last.pre_head # None
    /\ last.key = last.pre_head.key
    /\ last.pre_len >= 3
    /\ len = last.pre_len - 1
    /\ len = Size(head)

\* C3: get(k) agrees for every key k with the reference map driven by the
\* same calls: the value currently associated with k when k is present, None
\* when it is absent; and a call of get changes neither the tree nor len.
C3_GetAgreesWithReference ==
    /\ \A k \in Keys : MapGet(head, k) = ref[k]
    /\ last.op = "get" =>
          /\ last.ret = ref[last.key]
          /\ head = last.pre_head
          /\ len = last.pre_len

\* get found a key in the left subtree of the head, below the head's child.
C3_Witness ==
    /\ last.op = "get"
    /\ IsSome(last.ret)
    /\ last.ret = ref[last.key]
    /\ head # None
    /\ last.key < head.key
    /\ head.left # None
    /\ last.key # head.left.key

\* C4: insert(k, v) with k absent increases len by exactly one and makes
\* get(k) return v; insert(k, v2) with k present leaves len unchanged and
\* leaves exactly one entry for k, holding v2.
C4_InsertAddsOrOverwrites ==
    last.op = "insert" =>
        LET k   == last.key
            v   == last.value
            pre == last.pre_head
        IN  /\ (k \notin KeysOf(pre)) =>
                  /\ len = last.pre_len + 1
                  /\ MapGet(head, k) = Some(v)
            /\ (k \in KeysOf(pre)) =>
                  /\ len = last.pre_len
                  /\ CountKey(head, k) = 1
                  /\ ValueAt(head, k) = v
                  /\ MapGet(head, k) = Some(v)

\* A key below the head was inserted again with another value.
C4_Witness ==
    /\ last.op = "insert"
    /\ last.key \in KeysOf(last.pre_head)
    /\ last.key # last.pre_head.key
    /\ ValueAt(last.pre_head, last.key) # last.value
    /\ ValueAt(head, last.key) = last.value
    /\ len = last.pre_len
    /\ len >= 3

\* C5: for every key k present (at the head, as a leaf, with one child or with
\* two), remove(k) returns the value that was associated with k; afterwards k
\* is absent, len has decreased by exactly one, and every other key is still
\* present with its value unchanged.
C5_RemovePresentKey ==
    (last.op = "remove" /\ last.key \in KeysOf(last.pre_head)) =>
        LET k   == last.key
            pre == last.pre_head
        IN  /\ ~last.panic
            /\ last.ret = Some(ValueAt(pre, k))
            /\ k \notin KeysOf(head)
            /\ len = last.pre_len - 1
            /\ KeysOf(head) = KeysOf(pre) \ {k}
            /\ Entries(head) = Entries(pre) \ {<<k, ValueAt(pre, k)>>}

\* A node with two children was removed whose successor sat below the right
\* child and had a right subtree; the four other entries are all still there.
C5_Witness ==
    /\ last.op = "remove"
    /\ DeepSuccessorCase(last.pre_head, last.key)
    /\ last.ret = Some(ValueAt(last.pre_head, last.key))
    /\ last.key \notin KeysOf(head)
    /\ Cardinality(Entries(head)) = 4
    /\ len = 4

\* C6: remove(k) for an absent key k (the empty map included) returns None
\* without faulting and leaves the container unchanged: same len, same tree
\* shape, same keys and values.
C6_RemoveAbsentKey ==
    (last.op = "remove" /\ last.key \notin KeysOf(last.pre_head)) =>
        /\ ~last.panic
        /\ last.ret = None
        /\ head = last.pre_head
        /\ len = last.pre_len

\* An absent key was looked for in a map of several entries, between keys
\* that are present.
C6_Witness ==
    /\ last.op = "remove"
    /\ last.key \notin KeysOf(last.pre_head)
    /\ last.pre_len >= 3
    /\ \E a, b \in KeysOf(last.pre_head) : a < last.key /\ last.key < b
    /\ last.ret = None
    /\ head = last.pre_head

\* C7: get_mut(k) routes a greater key to the right child and a lesser key to
\* the left child, so that it finds an entry exactly when get(k) does:
\* Some(value of k) for every present key, None for every absent key.
C7_GetMutAgreesWithGet ==
    last.op = "get_mut" => last.ret = MapGet(last.pre_head, last.key)

\* C8: on a non-empty map first_key_value returns the entry with the minimum
\* key and last_key_value the entry with the maximum key; on the empty map
\* both return None; neither changes the map.
C8_FirstLastKeyValue ==
    /\ last.op = "first_key_value" =>
          /\ head = last.pre_head
          /\ len = last.pre_len
          /\ last.ret = IF head = None THEN None
                        ELSE Some(<<MinKey(head), ValueAt(head, MinKey(head))>>)
    /\ last.op = "last_key_value" =>
          /\ head = last.pre_head
          /\ len = last.pre_len
          /\ last.ret = IF head = None THEN None
                        ELSE Some(<<MaxKeyOf(head), ValueAt(head, MaxKeyOf(head))>>)

\* The minimum was found two levels below the head.
C8_Witness ==
    /\ last.op = "first_key_value"
    /\ head # None
    /\ head.left # None
    /\ head.left.left # None
    /\ last.ret = Some(<<MinKey(head), ValueAt(head, MinKey(head))>>)
    /\ MinKey(head) < head.left.key

\* The call removed exactly the entry of key k from the map it was given.
RemovedExactly(k) ==
    LET pre == last.pre_head IN
    /\ ~last.panic
    /\ last.ret = Some(ValueAt(pre, k))
    /\ KeysOf(head) = KeysOf(pre) \ {k}
    /\ Entries(head) = Entries(pre) \ {<<k, ValueAt(pre, k)>>}
    /\ len = last.pre_len - 1

\* The call found the map empty and left it so.
FoundEmpty ==
    /\ ~last.panic
    /\ last.ret = None
    /\ len = 0
    /\ head = None

\* C9: on a non-empty map remove_first (remove_last) returns the value of the
\* entry with the minimum (maximum) key, removes exactly that entry, decreases
\* len by one and leaves every other entry unchanged; on the empty map it
\* returns None and leaves len at 0 and head absent.
C9_RemoveFirstLast ==
    /\ last.op = "remove_first" =>
          IF last.pre_head = None THEN FoundEmpty
          ELSE RemovedExactly(MinKey(last.pre_head))
    /\ last.op = "remove_last" =>
          IF last.pre_head = None THEN FoundEmpty
          ELSE RemovedExactly(MaxKeyOf(last.pre_head))

\* The maximum was removed from below the head while it had a left subtree of
\* two nodes, which all stay.
C9_Witness ==
    /\ last.op = "remove_last"
    /\ last.pre_head # None
    /\ last.pre_head.right # None
    /\ Size(SubtreeAt(last.pre_head, MaxKeyOf(last.pre_head)).left) >= 2
    /\ RemovedExactly(MaxKeyOf(last.pre_head))
    /\ len >= 3

\* C10: insert_or(k, v, f) with k absent has exactly the effect of
\* insert(k, v): a new entry with value v, len + 1, f not applied; with k
\* present it applies f once to the existing value of k, does not store v,
\* and leaves len and every other entry unchanged.
C10_InsertOr ==
    last.op = "insert_or" =>
        LET k   == last.key
            v   == last.value
            pre == last.pre_head
        IN  /\ (k \notin KeysOf(pre)) =>
                  /\ head = MapInsert(pre, last.pre_len, k, v).head
                  /\ len = MapInsert(pre, last.pre_len, k, v).len
                  /\ len = last.pre_len + 1
                  /\ Entries(head) = Entries(pre) \cup {<<k, v>>}
            /\ (k \in KeysOf(pre)) =>
                  LET old == ValueAt(pre, k) IN
                  /\ len = last.pre_len
                  /\ KeysOf(head) = KeysOf(pre)
                  /\ CountKey(head, k) = 1
                  /\ ValueAt(head, k) = Apply(last.func, old)
                  /\ Entries(head) =
                        (Entries(pre) \ {<<k, old>>}) \cup {<<k, Apply(last.func, old)>>}

\* The update function changed the value of a key below the head to
\* something other than the value handed to insert_or.
C10_Witness ==
    /\ last.op = "insert_or"
    /\ last.key \in KeysOf(last.pre_head)
    /\ last.key # last.pre_head.key
    /\ ValueAt(head, last.key) # ValueAt(last.pre_head, last.key)
    /\ ValueAt(head, last.key) # last.value
    /\ ValueAt(head, last.key) = Apply(last.func, ValueAt(last.pre_head, last.key))
    /\ len = last.pre_len

-----------------------------------------------------------------------------
(* Structure of a removal or an insertion *)

\* The tree t with the subtree rooted at the node of key k replaced by new;
\* every node outside that subtree keeps its key, value and links.
RECURSIVE ReplaceAt(_, _, _)
ReplaceAt(t, k, new) ==
    IF t = None THEN None
    ELSE IF t.key = k THEN new
    ELSE [t EXCEPT !.left = ReplaceAt(t.left, k, new),
                   !.right = ReplaceAt(t.right, k, new)]

\* The tree t without its leftmost node, whose right subtree takes its place.
RECURSIVE DetachMin(_)
DetachMin(t) ==
    IF t.left = None THEN t.right ELSE [t EXCEPT !.left = DetachMin(t.left)]

IsRemoval == last.op \in {"remove", "remove_first", "remove_last"}

\* The node of the map before the call that the last removal is after.
RemoveTarget ==
    LET pre == last.pre_head IN
    CASE last.op = "remove" -> SubtreeAt(pre, last.key)
      [] last.op = "remove_first" ->
            (IF pre = None THEN None ELSE SubtreeAt(pre, MinKey(pre)))
      [] last.op = "remove_last" ->
            (IF pre = None THEN None ELSE SubtreeAt(pre, MaxKeyOf(pre)))
      [] OTHER -> None

\* The nodes get_successor is invoked on, from the call on n downwards.
RECURSIVE SuccessorCalls(_)
SuccessorCalls(n) ==
    IF ~IsSome(n.left) THEN {n}
    ELSE IF IsSuccessor(n.left) THEN {n}
    ELSE {n} \cup SuccessorCalls(n.left)

\* C12: during remove, remove_first and remove_last no internal fault occurs:
\* get_successor is only invoked on a node that has a left child, it always
\* returns a node, and no unwrap meets an absent value.
C12_NoFaultInRemoval ==
    IsRemoval =>
        /\ ~last.panic
        /\ LET t == RemoveTarget IN
           (t # None /\ HasChildren(t) = <<TRUE, TRUE>> /\ ~IsSuccessor(t.right)) =>
               /\ \A n \in SuccessorCalls(t.right) : IsSome(n.left)
               /\ ~GetSuccessor(t.right).panic
               /\ IsSome(GetSuccessor(t.right).succ)

\* A removal made get_successor recurse: the successor was two levels below
\* the right child of the node removed.
C12_Witness ==
    /\ last.op = "remove"
    /\ RemoveTarget # None
    /\ HasChildren(RemoveTarget) = <<TRUE, TRUE>>
    /\ ~IsSuccessor(RemoveTarget.right)
    /\ Cardinality(SuccessorCalls(RemoveTarget.right)) = 2
    /\ ~last.panic
    /\ IsSome(last.ret)

\* C14: clear sets len to 0 and head to absent in one step; afterwards
\* is_empty is true, get of every key returns None, and inserts behave as on
\* a newly constructed map.
C14_Clear ==
    last.op = "clear" =>
        /\ len = 0
        /\ head = None
        /\ MapIsEmpty(len)
        /\ \A k \in Keys : MapGet(head, k) = None
        /\ \A k \in Keys, v \in Values :
              /\ MapInsert(head, len, k, v) = MapInsert(MapNew.head, MapNew.len, k, v)
              /\ \A f \in Funcs : MapInsertOr(head, len, k, v, f) =
                                  MapInsertOr(MapNew.head, MapNew.len, k, v, f)

\* A map of at least three entries was cleared.
C14_Witness ==
    /\ last.op = "clear"
    /\ last.pre_len >= 3
    /\ Size(last.pre_head) >= 3
    /\ len = 0
    /\ head = None

\* C15: when remove(k) finds a node with two children, the node that takes
\* its position holds the minimum key of the removed node's right subtree;
\* its left subtree is the removed node's left subtree unchanged, and its
\* right subtree is the removed node's right subtree with the successor
\* detached and the successor's own right subtree in the successor's former
\* position; all other nodes keep their shape.
C15_TwoChildrenReplacement ==
    LET t == RemoveTarget IN
    (last.op = "remove" /\ t # None /\ HasChildren(t) = <<TRUE, TRUE>>) =>
        LET s == MinKey(t.right)
            p == SubtreeAt(head, s)
        IN  /\ p # None
            /\ p.value = ValueAt(t.right, s)
            /\ p.left = t.left
            /\ p.right = DetachMin(t.right)
            /\ head = ReplaceAt(last.pre_head, t.key, p)

\* A node below the head was removed whose successor sat below its right
\* child.
C15_Witness ==
    /\ last.op = "remove"
    /\ RemoveTarget # None
    /\ RemoveTarget.key # last.pre_head.key
    /\ HasChildren(RemoveTarget) = <<TRUE, TRUE>>
    /\ ~IsSuccessor(RemoveTarget.right)
    /\ SubtreeAt(head, MinKey(RemoveTarget.right)).right = DetachMin(RemoveTarget.right)
    /\ SubtreeAt(head, MinKey(RemoveTarget.right)).left = RemoveTarget.left

\* C16: when remove, remove_first or remove_last removes a node with no
\* children its position becomes empty; when it removes a node with exactly
\* one child, that child is promoted into the position with its own subtree
\* shape, keys and values untouched.
C16_LeafAndOneChild ==
    LET t == RemoveTarget IN
    (IsRemoval /\ t # None) =>
        /\ HasChildren(t) = <<FALSE, FALSE>> =>
              head = ReplaceAt(last.pre_head, t.key, None)
        /\ HasChildren(t) = <<TRUE, FALSE>> =>
              head = ReplaceAt(last.pre_head, t.key, t.left)
        /\ HasChildren(t) = <<FALSE, TRUE>> =>
              head = ReplaceAt(last.pre_head, t.key, t.right)

\* The maximum, a node below the head with a left subtree of two nodes and no
\* right child, was removed and that subtree promoted.
C16_Witness ==
    /\ last.op = "remove_last"
    /\ RemoveTarget # None
    /\ RemoveTarget.key # last.pre_head.key
    /\ HasChildren(RemoveTarget) = <<TRUE, FALSE>>
    /\ Size(RemoveTarget.left) = 2
    /\ SubtreeAt(head, RemoveTarget.left.key) = RemoveTarget.left
    /\ head = ReplaceAt(last.pre_head, RemoveTarget.key, RemoveTarget.left)

\* C18: no rebalancing on insert: insert or insert_or of an absent key adds
\* exactly one new leaf and every node that existed keeps its key, value,
\* parent and other children; insert of a present key changes only that
\* node's value and no link.
C18_InsertAddsOneLeaf ==
    (last.op \in {"insert", "insert_or"}) =>
        LET k   == last.key
            pre == last.pre_head
            old == SubtreeAt(pre, k)
        IN  IF old = None
            THEN /\ SubtreeAt(head, k) = NodeNew(k, last.value)
                 /\ ReplaceAt(head, k, None) = pre
            ELSE /\ head = ReplaceAt(pre, k, [old EXCEPT !.value = SubtreeAt(head, k).value])
                 /\ last.op = "insert" => SubtreeAt(head, k).value = last.value

\* A new key went in as a leaf two levels below the head, between the head
\* and the head's right child.
C18_Witness ==
    /\ last.op = "insert"
    /\ SubtreeAt(last.pre_head, last.key) = None
    /\ last.pre_head # None
    /\ last.pre_head.right # None
    /\ last.key > last.pre_head.key
    /\ last.key < last.pre_head.right.key
    /\ head.right.key = last.pre_head.right.key
    /\ SubtreeAt(head, last.key) = NodeNew(last.key, last.value)
    /\ ReplaceAt(head, last.key, None) = last.pre_head

-----------------------------------------------------------------------------
(* The result-passing protocol of a removal *)

\* The nodes Node::remove is called on, from the call on self downwards.
RECURSIVE RemoveCalls(_, _)
RemoveCalls(self, key) ==
    LET c == Cmp(key, self.key) IN
    IF c = "Equal" THEN <<self>>
    ELSE LET node_link == IF c = "Greater" THEN self.right ELSE self.left IN
         IF IsSome(node_link) THEN <<self>> \o RemoveCalls(node_link, key)
         ELSE <<self>>

\* The nodes Node::remove_position is called on, from self downwards.
RECURSIVE RemovePositionCalls(_, _)
RemovePositionCalls(self, pos) ==
    LET node_link == IF pos = "First" THEN self.left ELSE self.right IN
    IF IsSome(node_link) THEN <<self>> \o RemovePositionCalls(node_link, pos)
    ELSE <<self>>

LastPosition == IF last.op = "remove_first" THEN "First" ELSE "Last"

\* The recursive calls of the last removal, outermost first, and what the
\* i-th of them returned.
LastCalls ==
    IF last.op = "remove" THEN RemoveCalls(last.pre_head, last.key)
    ELSE RemovePositionCalls(last.pre_head, LastPosition)

LastResult(i) ==
    IF last.op = "remove" THEN NodeRemove(LastCalls[i], last.key)
    ELSE NodeRemovePosition(LastCalls[i], LastPosition)

\* The i-th call is the call on the node to remove.
IsTargetCall(i) ==
    IF last.op = "remove" THEN LastCalls[i].key = last.key
    ELSE i = Len(LastCalls)

\* The i-th call went on into its left child.
WentLeft(i) == LastCalls[i].left # None /\ LastCalls[i + 1].key = LastCalls[i].left.key

\* The node n with the link the i-th call followed set to x.
WithLink(i, n, x) ==
    IF WentLeft(i) THEN [n EXCEPT !.left = x] ELSE [n EXCEPT !.right = x]

\* C17: in every recursive removal the replace outcome (UpdateNode) is
\* produced only by the call on the node to remove, and is consumed exactly
\* once by that call's immediate caller (the parent node, or the map when the
\* target is the head), which takes the discarded node's value, installs the
\* replacement in that child position and returns a value outcome (Return);
\* every call above the immediate parent sees only a value outcome and
\* changes no link.
C17_ReplaceOutcomeProtocol ==
    (IsRemoval /\ last.pre_head # None) =>
        LET n == Len(LastCalls) IN
        /\ \A i \in 1..n :
              (LastResult(i).action.tag = "UpdateNode") <=> IsTargetCall(i)
        /\ \A i \in 1..(n - 1) :
              IF IsTargetCall(i + 1)
              THEN /\ LastResult(i).action = Return(Some(LastCalls[i + 1].value))
                   /\ LastResult(i).self =
                         WithLink(i, LastCalls[i], LastResult(i + 1).action.node)
              ELSE /\ LastResult(i).action = LastResult(i + 1).action
                   /\ LastResult(i + 1).self.key = LastCalls[i + 1].key
                   /\ LastResult(i).self =
                         WithLink(i, LastCalls[i], LastResult(i + 1).self)
        /\ IF IsTargetCall(1)
           THEN /\ head = LastResult(1).action.node
                /\ last.ret = Some(last.pre_head.value)
           ELSE /\ head = LastResult(1).self
                /\ head.key = last.pre_head.key
                /\ last.ret = LastResult(1).action.value

\* The node removed was found by the third call or deeper and had children:
\* its parent spliced, and the calls above only passed the value on.
C17_Witness ==
    /\ last.op = "remove"
    /\ last.pre_head # None
    /\ Len(LastCalls) >= 3
    /\ IsTargetCall(Len(LastCalls))
    /\ LastResult(Len(LastCalls)).action.node # None
    /\ LastResult(1).action = Return(Some(LastCalls[Len(LastCalls)].value))
    /\ last.ret = Some(LastCalls[Len(LastCalls)].value)

-----------------------------------------------------------------------------
(* Iteration, indexing, display *)

IsIteration == last.op \in {"into_iter", "iter", "iter_mut"}

\* C11: a full iteration in each of the three flavors (consuming, read-only
\* borrowing, mutable borrowing) yields exactly len items: every entry of the
\* map exactly once and no other pair, after which next reports the end.
C11_IterationYieldsEveryEntryOnce ==
    IsIteration =>
        LET items == last.ret.items IN
        /\ ~last.panic
        /\ Len(items) = last.pre_len
        /\ {items[i] : i \in 1..Len(items)} = Entries(last.pre_head)
        /\ \A i, j \in 1..Len(items) : items[i] = items[j] => i = j
        /\ last.ret.after = None

\* A consuming iteration over a map of four entries, which swap_remove made
\* yield out of key order.
C11_Witness ==
    /\ last.op = "into_iter"
    /\ last.pre_len = 4
    /\ Len(last.ret.items) = 4
    /\ last.ret.items[2][1] > last.ret.items[3][1]
    /\ last.pre_head.left # None
    /\ last.pre_head.right # None
    /\ last.ret.after = None

\* C13: map[k] returns the same value as get(k) when k is present and panics
\* when k is absent, the empty map included; it returns no sentinel and never
\* changes the map.
C13_IndexOrPanic ==
    last.op = "index" =>
        /\ head = last.pre_head
        /\ len = last.pre_len
        /\ IF last.key \in KeysOf(last.pre_head)
           THEN /\ ~last.panic
                /\ last.ret = MapGet(head, last.key)
                /\ last.ret = Some(ValueAt(last.pre_head, last.key))
           ELSE /\ last.panic
                /\ last.ret = None

\* An absent key was indexed in a map that holds keys on both sides of it.
C13_Witness ==
    /\ last.op = "index"
    /\ last.key \notin KeysOf(last.pre_head)
    /\ \E a, b \in KeysOf(last.pre_head) : a < last.key /\ last.key < b
    /\ last.panic
    /\ head = last.pre_head

\* C20: producing the structural dump (Display) completes without faulting in
\* every reachable state, the newly constructed empty map and a map emptied
\* by clear or by removals included, and does not change the map.
C20_DisplayNeverFaults ==
    last.op = "display" =>
        /\ ~last.panic
        /\ head = last.pre_head
        /\ len = last.pre_len

-----------------------------------------------------------------------------
(* Emptying a map from both ends *)

\* The keys of S in ascending order.
RECURSIVE Ascending(_)
Ascending(S) ==
    IF S = {} THEN <<>>
    ELSE LET m == CHOOSE k \in S : \A j \in S : k <= j IN
         <<m>> \o Ascending(S \ {m})

\* C19: from a map with n entries, in any sequence of n calls mixing
\* remove_first and remove_last every call returns a value; the values the
\* remove_first calls return are those of the keys in ascending order, the
\* values the remove_last calls return are those of the keys in descending
\* order; and after the n-th call the map is empty (is_empty, head absent).
C19_DrainFromBothEnds ==
    InDrain =>
        LET asc == Ascending(KeysOf(last.start_head))
            n   == last.start_len
        IN  /\ Len(asc) = n
            /\ ~last.panic
            /\ \A i \in 1..Len(last.firsts) :
                  last.firsts[i] = Some(ValueAt(last.start_head, asc[i]))
            /\ \A j \in 1..Len(last.lasts) :
                  last.lasts[j] = Some(ValueAt(last.start_head, asc[n + 1 - j]))
            /\ (Len(last.firsts) + Len(last.lasts) = n) =>
                  /\ head = None
                  /\ MapIsEmpty(len)

\* A map of five entries was emptied by three remove_first and two
\* remove_last calls.
C19_Witness ==
    /\ InDrain
    /\ last.start_len = 5
    /\ Len(last.firsts) = 3
    /\ Len(last.lasts) = 2
    /\ head = None
    /\ len = 0


-----------------------------------------------------------------------------
(* Termination of the recursive calls *)

RECURSIVE Height(_)
Height(t) ==
    IF t = None THEN 0
    ELSE 1 + (IF Height(t.left) >= Height(t.right) THEN Height(t.left)
              ELSE Height(t.right))

IsPrefix(p, q) == Len(p) <= Len(q) /\ SubSeq(q, 1, Len(p)) = p

\* The frames of the successor search, and the node it searches for.
SuccessorFrames == {i \in 1..Len(last.stack) : last.stack[i].fn = "get_successor"}

SearchFrames == (1..Len(last.stack)) \ SuccessorFrames

\* The calls in flight start at the head and each runs on a child of the
\* node its caller runs on, so that no two run on the same node; the search
\* is at most as deep as the tree is high, the successor search at most as
\* deep as the right subtree of the node being replaced, and both together
\* fit in the height of the tree.
RunDescends ==
    Running =>
        LET st == last.stack IN
        /\ st # <<>> => st[1].at = <<>>
        /\ \A i \in 1..Len(st) : NodeAt(head, st[i].at) # None
        /\ \A i \in 1..(Len(st) - 1) :
              /\ Len(st[i + 1].at) = Len(st[i].at) + 1
              /\ IsPrefix(st[i].at, st[i + 1].at)
        /\ \A i, j \in 1..Len(st) : i # j => st[i].at # st[j].at
        /\ \A i \in SuccessorFrames : \A j \in SearchFrames : j < i
        /\ Cardinality(SearchFrames) <= Height(head)
        /\ SuccessorFrames # {} =>
              LET target == NodeAt(head, st[Cardinality(SearchFrames)].at) IN
              Cardinality(SuccessorFrames) <= Height(target.right)
        /\ Len(st) <= Height(head)

\* C21: every call of insert, insert_or, get, get_mut, first_key_value,
\* last_key_value, remove, remove_first and remove_last terminates: each
\* recursive call runs on a child of the node its caller runs on, their number
\* is bounded by the height of the tree and by the successor search, and the
\* Node calls of a call in flight always return to the BstMap method, which
\* finishes without calling again.
C21_EveryCallTerminates ==
    /\ []RunDescends
    /\ Running ~> Returned

\* A removal is in flight: the head is the node to remove, and the search
\* for its successor is two calls deep, as deep as it goes in this tree.
C21_Witness ==
    /\ Running
    /\ last.call = "remove"
    /\ Len(last.stack) = Height(head) - 1
    /\ Cardinality(SearchFrames) = 1
    /\ Cardinality(SuccessorFrames) = 2

=============================================================================
